---- MODULE Spec2Model ----
(***************************************************************************)
(* Model of the text formatter of the chat frontend                        *)
(* (react-frontend/src/components/FormattedText.tsx): formatText splits a  *)
(* text into lines and scans them once, emitting header, paragraph, code   *)
(* and list-group blocks.  A text is a sequence of characters, a character *)
(* is a one-character string; the bullet glyph U+2022 is the token Bullet. *)
(* JavaScript indexes from 0, the model from 1.                            *)
(***************************************************************************)
EXTENDS Integers, Sequences, FiniteSets, TLC

VARIABLES
    typeofText,   \* what the caller handed over as text: "string", or one of
                  \* NonStrings when the value is not a string
    text,         \* the text handed to formatText (empty when not a string)
    pc,           \* "start", "scan" (inside lines.forEach), "done" (formatted
                  \* returned), "null" (null returned) or "thrown" (TypeError)
    lines,        \* text.split('\n')
    index,        \* the line the forEach callback runs on next
    formatted,    \* the blocks pushed so far
    currentList,  \* the items of the pending list group
    listType,     \* "null", "numbered" or "bullet"
    curSrc,       \* history: the line index of each item of currentList
    watch,        \* history: the input whose results are compared, or NoInput
    seen          \* history: what formatText first returned for watch, or Nothing

\* ExpandableText (components/ExpandableText.tsx) and its getPreviewText
VARIABLES
    xpc,            \* "idle", "call" (getPreviewText called), "returned", "mounted"
    xtext,          \* the text prop of ExpandableText, the text of getPreviewText
    previewLength,  \* the previewLength prop, the length of getPreviewText
    preview,        \* what getPreviewText returned
    isExpanded,     \* the state of ExpandableText
    displayText,    \* the text last handed to FormattedText
    button,         \* the Read More / Show Less button is rendered
    toggles         \* history: the clicks on the button so far

\* the application: AuthProvider (contexts/AuthContext), the router and the
\* admin pages
VARIABLES
    user,           \* AuthProvider: "null" or the role of the user
    token,          \* AuthProvider: "null" or the access token
    isLoading,      \* AuthProvider: the stored session is not restored yet
    localStorage,   \* the keys 'token' and 'user', "null" when absent
    Authorization,  \* axios.defaults.headers.common, "null" when absent
    page,           \* the route that is mounted
    inflight,       \* the requests awaited by a handler
    issued,         \* history: the admin GETs issued, with the user of that moment
    loginIsLoading, \* Login: its own isLoading flag
    loginError,     \* Login: its error message, "" when none
    success         \* Login.handleSubmit: what login() last returned, "none" before

\* one mounted chat page: Dashboard, AwsSolutions or CodingHub
VARIABLES
    chatPage,       \* which of the three pages it is, "none" when not in use
    messages,       \* the message list
    inputMessage,   \* the text of the input field
    chatIsLoading,  \* the page's isLoading flag
    chatError,      \* the page's error, "" when none
    searchHistory,  \* the ids of the history items the page holds
    queries,        \* the POST /query requests in flight, by number of the send
    fetching,       \* the GET /search/history requests in flight
    ignored,        \* history: why handleSendMessage last returned at once, or "no"
    clicked         \* history: the items clicked again when already in the chat

fmtVars == <<typeofText, text, pc, lines, index, formatted, currentList, listType, curSrc,
             watch, seen>>

viewVars == <<xpc, xtext, previewLength, preview, isExpanded, displayText, button, toggles>>

appVars == <<user, token, isLoading, localStorage, Authorization, page, inflight, issued,
             loginIsLoading, loginError, success>>

chatVars == <<chatPage, messages, inputMessage, chatIsLoading, chatError, searchHistory,
              queries, fetching, ignored, clicked>>

vars == <<fmtVars, viewVars, appVars, chatVars>>

\* what the actions of the formatter, those of ExpandableText and those of
\* the application leave alone
notFmt == <<viewVars, appVars, chatVars>>

notView == <<fmtVars, appVars, chatVars>>

notApp == <<fmtVars, viewVars, chatVars>>

notChat == <<fmtVars, viewVars, appVars>>

(* ------------------------------ bounds --------------------------------- *)

MaxLen == 4

MaxLines == 3

(* ---------------------------- characters ------------------------------- *)

Bullet == "bullet"

Digits == {"0", "1", "2", "3", "4", "5", "6", "7", "8", "9"}

Letters ==
    {"a", "b", "c", "d", "e", "f", "g", "h", "i", "j", "k", "l", "m",
     "n", "o", "p", "q", "r", "s", "t", "u", "v", "w", "x", "y", "z",
     "A", "B", "C", "D", "E", "F", "G", "H", "I", "J", "K", "L", "M",
     "N", "O", "P", "Q", "R", "S", "T", "U", "V", "W", "X", "Y", "Z"}

\* String.prototype.trim and the regex class \s (the members a TLA+ string
\* can spell)
WhiteSpace == {" ", "\t", "\n", "\r", "\f"}

\* the regex atom . matches every character but a line terminator
LineTerminators == {"\n", "\r"}

\* [a-zA-Z_$] and [a-zA-Z0-9_$]
IdentStart == Letters \cup {"_", "$"}

IdentPart == IdentStart \cup Digits

\* [=:({]
AssignChars == {"=", ":", "(", "{"}

(* ------------------------------ inputs --------------------------------- *)

Alphabet == {"\n", "\r", " ", "*", "0", "1", ".", Bullet, "a", "="}

TitleText ==
    <<"*", "*", "T", "i", "t", "l", "e", "*", "*">>

FooBarText ==
    <<"1", ".", " ", "f", "o", "o", "\n", "2", ".", " ", "b", "a", "r">>

BulletPlainText ==
    <<Bullet, " ", "a", "\n", Bullet, " ", "b", "\n", "\n", "p", "l", "a", "i", "n", " ", "t",
    "e", "x", "t">>

IndentText ==
    <<" ", " ", " ", " ", "x", " ", "=", " ", "1">>

MixedText ==
    <<"1", ".", " ", "a", "\n", Bullet, " ", "b">>

ZeroPadText ==
    <<"0", "0", "7", ".", " ", "x">>

\* '3.14 is pi': a numbered marker with no white space after the dot
PiText ==
    <<"3", ".", "1", "4", " ", "i", "s", " ", "p", "i">>

\* '1.a\rb': a numbered line with a carriage return inside its content
ReturnText ==
    <<"1", ".", "a", "\r", "b">>

sampleText ==
    <<"*", "*", "T", "L", "D", "D", " ", "S", "y", "s", "t", "e", "m", " ", "O", "v", "e", "r",
    "v", "i", "e", "w", "*", "*", "\n", "\n", "T", "h", "e", " ", "T", "L", "D", "D", " ", "s",
    "e", "r", "i", "e", "s", " ", "i", "s", " ", "p", "a", "r", "t", " ", "o", "f", " ", "t",
    "h", "e", " ", "S", "K", "F", " ", "S", "Y", "S", "T", "E", "M", " ", "2", "4", " ", "p",
    "o", "r", "t", "f", "o", "l", "i", "o", ",", " ", "w", "h", "i", "c", "h", " ", "u", "t",
    "i", "l", "i", "z", "e", "s", " ", "a", " ", "w", "e", "b", " ", "d", "a", "s", "h", "b",
    "o", "a", "r", "d", " ", "a", "n", "d", " ", "i", "n", "t", "e", "r", "f", "a", "c", "e",
    " ", "t", "o", " ", "m", "o", "n", "i", "t", "o", "r", " ", "t", "h", "e", " ", "s", "t",
    "a", "t", "u", "s", " ", "o", "f", " ", "e", "a", "c", "h", " ", "l", "u", "b", "r", "i",
    "c", "a", "t", "o", "r", " ", "a", "n", "d", " ", "c", "h", "a", "n", "g", "e", " ", "i",
    "t", "s", " ", "s", "e", "t", "t", "i", "n", "g", "s", ".", "\n", "\n", "*", "*", "K", "e",
    "y", " ", "C", "o", "m", "p", "o", "n", "e", "n", "t", "s", ":", "*", "*", "\n", "\n",
    Bullet, " ", "*", "*", "G", "a", "t", "e", "w", "a", "y", ":", "*", "*", " ", "T", "h",
    "e", " ", "g", "a", "t", "e", "w", "a", "y", " ", "u", "s", "e", "s", " ", "t", "h", "e",
    " ", "G", "S", "M", " ", "n", "e", "t", "w", "o", "r", "k", " ", "t", "o", " ", "c", "o",
    "m", "m", "u", "n", "i", "c", "a", "t", "e", " ", "w", "i", "t", "h", " ", "t", "h", "e",
    " ", "d", "a", "t", "a", " ", "c", "l", "o", "u", "d", ".", " ", "A", "l", "l", " ", "c",
    "o", "m", "m", "u", "n", "i", "c", "a", "t", "i", "o", "n", " ", "i", "s", " ", "e", "n",
    "d", "-", "t", "o", "-", "e", "n", "d", " ", "e", "n", "c", "r", "y", "p", "t", "e", "d",
    " ", "t", "o", " ", "p", "r", "e", "v", "e", "n", "t", " ", "a", "c", "c", "e", "s", "s",
    " ", "e", "x", "c", "e", "p", "t", " ", "b", "y", " ", "a", "u", "t", "h", "o", "r", "i",
    "z", "e", "d", " ", "u", "s", "e", "r", "s", ".", "\n", "\n", Bullet, " ", "*", "*", "D",
    "r", "i", "v", "e", " ", "U", "n", "i", "t", ":", "*", "*", " ", "T", "h", "e", " ", "d",
    "r", "i", "v", "e", " ", "u", "n", "i", "t", " ", "c", "o", "n", "t", "a", "i", "n", "s",
    " ", "t", "h", "e", " ", "e", "l", "e", "c", "t", "r", "o", "-", "m", "e", "c", "h", "a",
    "n", "i", "c", "a", "l", " ", "d", "r", "i", "v", "e", " ", "s", "y", "s", "t", "e", "m",
    " ", "t", "h", "a", "t", " ", "p", "o", "w", "e", "r", "s", " ", "t", "h", "e", " ", "l",
    "u", "b", "r", "i", "c", "a", "t", "o", "r", ".", "\n", "\n", Bullet, " ", "*", "*", "L",
    "u", "b", "r", "i", "c", "a", "t", "i", "o", "n", " ", "C", "l", "o", "u", "d", " ", "P",
    "l", "a", "t", "f", "o", "r", "m", " ", "(", "L", "C", "P", ")", ":", "*", "*", " ", "T",
    "h", "i", "s", " ", "w", "e", "b", "-", "i", "n", "t", "e", "r", "f", "a", "c", "e", " ",
    "v", "i", "s", "u", "a", "l", "i", "z", "e", "s", " ", "t", "h", "e", " ", "l", "u", "b",
    "r", "i", "c", "a", "t", "o", "r", " ", "d", "a", "t", "a", " ", "i", "n", " ", "t", "h",
    "e", " ", "c", "l", "o", "u", "d", " ", "a", "n", "d", " ", "o", "f", "f", "e", "r", "s",
    " ", "i", "n", "t", "u", "i", "t", "i", "v", "e", " ", "i", "n", "t", "e", "r", "a", "c",
    "t", "i", "o", "n", " ", "w", "i", "t", "h", " ", "t", "h", "e", " ", "s", "y", "s", "t",
    "e", "m", ".", "\n", "\n", "*", "*", "F", "e", "a", "t", "u", "r", "e", "s", ":", "*", "*",
    "\n", "\n", "1", ".", " ", "R", "e", "a", "l", "-", "t", "i", "m", "e", " ", "m", "o", "n",
    "i", "t", "o", "r", "i", "n", "g", " ", "o", "f", " ", "l", "u", "b", "r", "i", "c", "a",
    "t", "o", "r", " ", "s", "t", "a", "t", "u", "s", "\n", "2", ".", " ", "R", "e", "m", "o",
    "t", "e", " ", "c", "o", "n", "t", "r", "o", "l", " ", "a", "n", "d", " ", "c", "o", "n",
    "f", "i", "g", "u", "r", "a", "t", "i", "o", "n", "\n", "3", ".", " ", "2", "4", "/", "7",
    " ", "a", "c", "c", "e", "s", "s", "i", "b", "i", "l", "i", "t", "y", " ", "f", "r", "o",
    "m", " ", "a", "n", "y", " ", "d", "e", "v", "i", "c", "e", "\n", "4", ".", " ", "E", "n",
    "d", "-", "t", "o", "-", "e", "n", "d", " ", "e", "n", "c", "r", "y", "p", "t", "e", "d",
    " ", "c", "o", "m", "m", "u", "n", "i", "c", "a", "t", "i", "o", "n", "\n", "\n", "T", "h",
    "e", " ", "s", "y", "s", "t", "e", "m", " ", "o", "p", "e", "r", "a", "t", "e", "s", " ",
    "w", "i", "t", "h", " ", "t", "w", "o", " ", "c", "a", "r", "t", "r", "i", "d", "g", "e",
    " ", "s", "i", "z", "e", "s", ":", " ", "1", "2", "5", " ", "m", "l", " ", "a", "n", "d",
    " ", "2", "5", "0", " ", "m", "l", ",", " ", "p", "r", "o", "v", "i", "d", "i", "n", "g",
    " ", "f", "l", "e", "x", "i", "b", "i", "l", "i", "t", "y", " ", "f", "o", "r", " ", "d",
    "i", "f", "f", "e", "r", "e", "n", "t", " ", "l", "u", "b", "r", "i", "c", "a", "t", "i",
    "o", "n", " ", "r", "e", "q", "u", "i", "r", "e", "m", "e", "n", "t", "s", ".">>

LinePool ==
    { <<>>,
      <<" ">>,
      <<"1", ".", " ", "a">>,
      <<"0", "7", ".", "b">>,
      <<Bullet, " ", "a">>,
      <<"*", "*", "T", "*", "*">>,
      <<"*", "*", "a", "*", "*", "b", "*", "*">>,
      <<" ", " ", " ", " ", "x">>,
      <<" ", " ", " ", " ", "2", ".", "c">>,
      <<"x", "=", "1">>,
      <<"1", ".", " ", "c", "o", "n", "s", "t", " ", "a">>,
      <<Bullet, " ", "i", "m", "p", "o", "r", "t", " ", "a">>,
      <<"*", "*", "c", "o", "n", "s", "t", " ", "a", "*", "*">>,
      <<"a", " ", "b">>,
      <<"d", "e", "f", " ", "f">> }

RECURSIVE Join(_)
Join(ls) ==
    IF Len(ls) = 1 THEN ls[1] ELSE ls[1] \o <<"\n">> \o Join(Tail(ls))

CharTexts == UNION {[1..n -> Alphabet] : n \in 0..MaxLen}

LineTexts == {Join(ls) : ls \in UNION {[1..n -> LinePool] : n \in 1..MaxLines}}

SampleTexts ==
    {TitleText, FooBarText, BulletPlainText, IndentText, MixedText, ZeroPadText,
     PiText, ReturnText, sampleText}

Texts == CharTexts \cup LineTexts \cup SampleTexts

\* values a caller can pass at run time that are not strings: undefined, null,
\* the number 0, a non-zero number, an object
NonStrings == {"undefined", "null", "zero", "number", "object"}

\* the non-strings !text is true of
FalsyNonStrings == {"undefined", "null", "zero"}

(* ------------------------- string primitives --------------------------- *)

\* length of the longest prefix of s made of characters of S
PrefixIn(s, S) ==
    IF \A i \in DOMAIN s : s[i] \in S THEN Len(s)
    ELSE (CHOOSE i \in DOMAIN s : s[i] \notin S /\ \A j \in 1..(i - 1) : s[j] \in S) - 1

\* length of the longest prefix of s made of characters outside S
PrefixNotIn(s, S) ==
    IF \A i \in DOMAIN s : s[i] \notin S THEN Len(s)
    ELSE (CHOOSE i \in DOMAIN s : s[i] \in S /\ \A j \in 1..(i - 1) : s[j] \notin S) - 1

\* length of the longest suffix of s made of characters of S
SuffixIn(s, S) ==
    IF \A i \in DOMAIN s : s[i] \in S THEN Len(s)
    ELSE Len(s) - (CHOOSE i \in DOMAIN s :
                      s[i] \notin S /\ \A j \in (i + 1)..Len(s) : s[j] \in S)

Drop(s, n) == SubSeq(s, n + 1, Len(s))

\* text.split('\n')
RECURSIVE split(_)
split(s) ==
    LET k == PrefixNotIn(s, {"\n"})
    IN  IF k = Len(s) THEN <<s>> ELSE <<SubSeq(s, 1, k)>> \o split(Drop(s, k + 1))

\* line.trim()
trim(s) ==
    LET a == PrefixIn(s, WhiteSpace)
    IN  IF a = Len(s) THEN <<>> ELSE SubSeq(s, a + 1, Len(s) - SuffixIn(s, WhiteSpace))

\* s.startsWith(p)
startsWith(s, p) == Len(s) >= Len(p) /\ SubSeq(s, 1, Len(p)) = p

\* s.includes(p)
includes(s, p) ==
    \E i \in 0..(Len(s) - Len(p)) : SubSeq(s, i + 1, i + Len(p)) = p

\* parseInt of a string of decimal digits
DigitValue(c) == CHOOSE d \in 0..9 : ToString(d) = c

RECURSIVE parseInt(_)
parseInt(ds) ==
    IF ds = <<>> THEN 0
    ELSE 10 * parseInt(SubSeq(ds, 1, Len(ds) - 1)) + DigitValue(ds[Len(ds)])

\* the decimal text React renders for {item.number}
RECURSIVE NumberText(_)
NumberText(n) ==
    IF n < 10 THEN <<ToString(n)>> ELSE NumberText(n \div 10) \o <<ToString(n % 10)>>

(* --------------------------- line patterns ----------------------------- *)

\* trimmedLine.match(/^\*\*.*\*\*$/)
headerMatch(t) ==
    /\ Len(t) >= 4
    /\ t[1] = "*" /\ t[2] = "*" /\ t[Len(t) - 1] = "*" /\ t[Len(t)] = "*"
    /\ \A i \in 3..(Len(t) - 2) : t[i] \notin LineTerminators

\* trimmedLine.replace(/\*\*/g, ''): every non-overlapping pair, left to right
RECURSIVE headerText(_)
headerText(t) ==
    IF Len(t) < 2 THEN t
    ELSE IF t[1] = "*" /\ t[2] = "*" THEN headerText(Drop(t, 2))
    ELSE <<t[1]>> \o headerText(Tail(t))

\* the numbered pattern as it would be with \d* in place of \d+
numberMatch_noDigits(t) ==
    LET k == PrefixIn(t, Digits)
    IN  Len(t) > k /\ t[k + 1] = "."

\* trimmedLine.match(/^(\d+)\.\s*(.*)/): the match succeeds exactly when the
\* longest digit prefix is non-empty and followed by a dot
numberMatch(t) ==
    LET k == PrefixIn(t, Digits)
    IN  k >= 1 /\ Len(t) > k /\ t[k + 1] = "."

\* capture group 1
numberGroup(t) == SubSeq(t, 1, PrefixIn(t, Digits))

\* capture group 2: after the dot \s* takes all white space, then .* runs to
\* the first line terminator
contentGroup(t) ==
    LET rest  == Drop(t, PrefixIn(t, Digits) + 1)
        after == Drop(rest, PrefixIn(rest, WhiteSpace))
    IN  SubSeq(after, 1, PrefixNotIn(after, LineTerminators))

\* trimmedLine.startsWith(Bullet)
bulletMatch(t) == startsWith(t, <<Bullet>>)

\* trimmedLine.substring(1).trim()
bulletText(t) == trim(Drop(t, 1))

\* /^[a-zA-Z_$][a-zA-Z0-9_$]*\s*[=:({]/.test(trimmedLine)
assignMatch(t) ==
    /\ Len(t) >= 1 /\ t[1] \in IdentStart
    /\ LET r1 == Drop(t, 1)
           r2 == Drop(r1, PrefixIn(r1, IdentPart))
           r3 == Drop(r2, PrefixIn(r2, WhiteSpace))
       IN  Len(r3) >= 1 /\ r3[1] \in AssignChars

\* the condition of the code-block branch
codeMatch(line, t) ==
    \/ startsWith(line, <<" ", " ", " ", " ">>)
    \/ includes(t, <<"d", "e", "f", " ">>)
    \/ includes(t, <<"f", "u", "n", "c", "t", "i", "o", "n", " ">>)
    \/ includes(t, <<"c", "o", "n", "s", "t", " ">>)
    \/ includes(t, <<"i", "m", "p", "o", "r", "t", " ">>)
    \/ assignMatch(t)

(* ------------------------------ blocks --------------------------------- *)

\* a pushed element: its kind, its text (header, code, paragraph) or its items
\* (list groups), and, as history, the indexes of the lines it was built from
Block(k, c, its, from) == [kind |-> k, content |-> c, items |-> its, from |-> from]

\* flushList as it would be with unshift in place of push
flushList_unshift(f, cl, lt, cs) ==
    IF Len(cl) > 0
    THEN [formatted   |-> <<Block(lt, <<>>, cl, cs)>> \o f,
          currentList |-> <<>>,
          listType    |-> "null",
          curSrc      |-> <<>>]
    ELSE [formatted |-> f, currentList |-> cl, listType |-> lt, curSrc |-> cs]

\* flushList as it would be without setListType's listType = null
flushList_keepType(f, cl, lt, cs) ==
    IF Len(cl) > 0
    THEN [formatted   |-> IF lt = "numbered" THEN Append(f, Block("numbered", <<>>, cl, cs))
                          ELSE IF lt = "bullet" THEN Append(f, Block("bullet", <<>>, cl, cs))
                          ELSE f,
          currentList |-> <<>>,
          listType    |-> lt,
          curSrc      |-> <<>>]
    ELSE [formatted |-> f, currentList |-> cl, listType |-> lt, curSrc |-> cs]

\* flushList: the block list, the buffer and the list type it leaves
flushList(f, cl, lt, cs) ==
    IF Len(cl) > 0
    THEN [formatted   |-> IF lt = "numbered" THEN Append(f, Block("numbered", <<>>, cl, cs))
                          ELSE IF lt = "bullet" THEN Append(f, Block("bullet", <<>>, cl, cs))
                          ELSE f,
          currentList |-> <<>>,
          listType    |-> "null",
          curSrc      |-> <<>>]
    ELSE [formatted |-> f, currentList |-> cl, listType |-> lt, curSrc |-> cs]

\* the list branches as they would be flushing before every item
needFlush_always(lt, k) == TRUE

\* the list branches as they would be never flushing
needFlush_never(lt, k) == FALSE

\* if (listType !== 'numbered') and if (listType !== 'bullet')
needFlush(lt, k) == lt # k

(* ----------------------------- the scan -------------------------------- *)

\* no input watched, and nothing returned yet
NoInput == [type |-> "none", text |-> <<>>]

Nothing == [kind |-> "none", blocks |-> <<>>]

line == lines[index]

trimmedLine == trim(line)

flushed == flushList(formatted, currentList, listType, curSrc)

\* ExpandableText not in use
ViewIdle ==
    /\ xpc = "idle"
    /\ xtext = <<>>
    /\ previewLength = 0
    /\ preview = <<>>
    /\ isExpanded = FALSE
    /\ displayText = <<>>
    /\ button = FALSE
    /\ toggles = 0

\* no chat page in use
ChatIdle ==
    /\ chatPage = "none"
    /\ messages = <<>>
    /\ inputMessage = <<>>
    /\ chatIsLoading = FALSE
    /\ chatError = ""
    /\ searchHistory = {}
    /\ queries = {}
    /\ fetching = 0
    /\ ignored = "no"
    /\ clicked = {}

\* the application not in use
AppIdle ==
    /\ user = "null"
    /\ token = "null"
    /\ isLoading = FALSE
    /\ localStorage = [token |-> "null", user |-> "null"]
    /\ Authorization = "null"
    /\ page = "idle"
    /\ inflight = {}
    /\ issued = {}
    /\ loginIsLoading = FALSE
    /\ loginError = ""
    /\ success = "none"

Init ==
    /\ ChatIdle
    /\ ViewIdle
    /\ AppIdle
    /\ \/ typeofText = "string" /\ text \in Texts
       \/ typeofText \in NonStrings /\ text = <<>>
    /\ pc = "start"
    /\ lines = <<>>
    /\ index = 1
    /\ formatted = <<>>
    /\ currentList = <<>>
    /\ listType = "null"
    /\ curSrc = <<>>
    /\ watch = NoInput
    /\ seen = Nothing

\* the input of this call is the watched one
Watched == watch = [type |-> typeofText, text |-> text]

\* !text
falsy == IF typeofText = "string" THEN text = <<>> ELSE typeofText \in FalsyNonStrings

\* if (!text) return null
ReturnNull ==
    /\ pc = "start"
    /\ falsy
    /\ pc' = "null"
    /\ seen' = IF Watched /\ seen = Nothing THEN [kind |-> "null", blocks |-> <<>>] ELSE seen
    /\ UNCHANGED <<watch, typeofText, text, lines, index, formatted, currentList, listType,
                   curSrc>>
    /\ UNCHANGED notFmt

\* the start of formatText as it would be with the block list, the buffer
\* and the list type declared outside the function
Start_shared ==
    /\ pc = "start"
    /\ ~falsy
    /\ typeofText = "string"
    /\ lines' = split(text)
    /\ index' = 1
    /\ pc' = "scan"
    /\ UNCHANGED <<watch, seen, typeofText, text, formatted, currentList, listType, curSrc>>
    /\ UNCHANGED notFmt

\* const lines = text.split('\n'), and the fresh locals of the call: the empty
\* block list, the empty buffer, no list type; forEach starts at the first line
Start ==
    /\ pc = "start"
    /\ ~falsy
    /\ typeofText = "string"
    /\ lines' = split(text)
    /\ index' = 1
    /\ formatted' = <<>>
    /\ currentList' = <<>>
    /\ listType' = "null"
    /\ curSrc' = <<>>
    /\ pc' = "scan"
    /\ UNCHANGED <<watch, seen, typeofText, text>>
    /\ UNCHANGED notFmt

\* text.split on a truthy value that is not a string: split is undefined and
\* the call throws a TypeError out of formatText
Throw ==
    /\ pc = "start"
    /\ ~falsy
    /\ typeofText # "string"
    /\ pc' = "thrown"
    /\ UNCHANGED <<watch, seen, typeofText, text, lines, index, formatted, currentList, listType, curSrc>>
    /\ UNCHANGED notFmt

Scanning == pc = "scan" /\ index <= Len(lines)

\* the blank branch as it would be returning without the flush
ScanBlank_skip ==
    /\ Scanning
    /\ trimmedLine = <<>>
    /\ index' = index + 1
    /\ UNCHANGED <<watch, seen, typeofText, text, pc, lines, formatted, currentList, listType, curSrc>>
    /\ UNCHANGED notFmt

\* the blank branch as it would be pushing a spacer for the empty line
ScanBlank_spacer ==
    /\ Scanning
    /\ trimmedLine = <<>>
    /\ formatted' = Append(flushed.formatted, Block("paragraph", <<>>, <<>>, <<index>>))
    /\ currentList' = flushed.currentList
    /\ listType' = flushed.listType
    /\ curSrc' = flushed.curSrc
    /\ index' = index + 1
    /\ UNCHANGED <<watch, seen, typeofText, text, pc, lines>>
    /\ UNCHANGED notFmt

\* trimmedLine === '': flush, no block
ScanBlank ==
    /\ Scanning
    /\ trimmedLine = <<>>
    /\ formatted' = flushed.formatted
    /\ currentList' = flushed.currentList
    /\ listType' = flushed.listType
    /\ curSrc' = flushed.curSrc
    /\ index' = index + 1
    /\ UNCHANGED <<watch, seen, typeofText, text, pc, lines>>
    /\ UNCHANGED notFmt

\* header branch
ScanHeader ==
    /\ Scanning
    /\ trimmedLine # <<>>
    /\ headerMatch(trimmedLine)
    /\ formatted' = Append(flushed.formatted,
                           Block("header", headerText(trimmedLine), <<>>, <<index>>))
    /\ currentList' = flushed.currentList
    /\ listType' = flushed.listType
    /\ curSrc' = flushed.curSrc
    /\ index' = index + 1
    /\ UNCHANGED <<watch, seen, typeofText, text, pc, lines>>
    /\ UNCHANGED notFmt

\* numbered-list branch: flush only on a change of list type, then buffer
ScanNumbered ==
    /\ Scanning
    /\ trimmedLine # <<>>
    /\ ~headerMatch(trimmedLine)
    /\ numberMatch(trimmedLine)
    /\ LET item == [number  |-> parseInt(numberGroup(trimmedLine)),
                    content |-> contentGroup(trimmedLine)]
       IN  IF needFlush(listType, "numbered")
           THEN /\ formatted' = flushed.formatted
                /\ currentList' = Append(flushed.currentList, item)
                /\ curSrc' = Append(flushed.curSrc, index)
           ELSE /\ formatted' = formatted
                /\ currentList' = Append(currentList, item)
                /\ curSrc' = Append(curSrc, index)
    /\ listType' = "numbered"
    /\ index' = index + 1
    /\ UNCHANGED <<watch, seen, typeofText, text, pc, lines>>
    /\ UNCHANGED notFmt

\* the bullet branch as it would be dropping an item without content
ScanBullet_skipEmpty ==
    /\ Scanning
    /\ trimmedLine # <<>>
    /\ ~headerMatch(trimmedLine)
    /\ ~numberMatch(trimmedLine)
    /\ bulletMatch(trimmedLine)
    /\ IF bulletText(trimmedLine) = <<>>
       THEN UNCHANGED <<formatted, currentList, listType, curSrc>>
       ELSE /\ listType' = "bullet"
            /\ IF needFlush(listType, "bullet")
               THEN /\ formatted' = flushed.formatted
                    /\ currentList' = Append(flushed.currentList, bulletText(trimmedLine))
                    /\ curSrc' = Append(flushed.curSrc, index)
               ELSE /\ formatted' = formatted
                    /\ currentList' = Append(currentList, bulletText(trimmedLine))
                    /\ curSrc' = Append(curSrc, index)
    /\ index' = index + 1
    /\ UNCHANGED <<watch, seen, typeofText, text, pc, lines>>
    /\ UNCHANGED notFmt

\* bullet branch
ScanBullet ==
    /\ Scanning
    /\ trimmedLine # <<>>
    /\ ~headerMatch(trimmedLine)
    /\ ~numberMatch(trimmedLine)
    /\ bulletMatch(trimmedLine)
    /\ IF needFlush(listType, "bullet")
       THEN /\ formatted' = flushed.formatted
            /\ currentList' = Append(flushed.currentList, bulletText(trimmedLine))
            /\ curSrc' = Append(flushed.curSrc, index)
       ELSE /\ formatted' = formatted
            /\ currentList' = Append(currentList, bulletText(trimmedLine))
            /\ curSrc' = Append(curSrc, index)
    /\ listType' = "bullet"
    /\ index' = index + 1
    /\ UNCHANGED <<watch, seen, typeofText, text, pc, lines>>
    /\ UNCHANGED notFmt

\* the code branch as it would be standing before the list branches
ScanCode_first ==
    /\ Scanning
    /\ trimmedLine # <<>>
    /\ ~headerMatch(trimmedLine)
    /\ codeMatch(line, trimmedLine)
    /\ formatted' = Append(flushed.formatted, Block("code", line, <<>>, <<index>>))
    /\ currentList' = flushed.currentList
    /\ listType' = flushed.listType
    /\ curSrc' = flushed.curSrc
    /\ index' = index + 1
    /\ UNCHANGED <<watch, seen, typeofText, text, pc, lines>>
    /\ UNCHANGED notFmt

\* the code branch as it would be showing the trimmed line
ScanCode_trimmed ==
    /\ Scanning
    /\ trimmedLine # <<>>
    /\ ~headerMatch(trimmedLine)
    /\ ~numberMatch(trimmedLine)
    /\ ~bulletMatch(trimmedLine)
    /\ codeMatch(line, trimmedLine)
    /\ formatted' = Append(flushed.formatted, Block("code", trimmedLine, <<>>, <<index>>))
    /\ currentList' = flushed.currentList
    /\ listType' = flushed.listType
    /\ curSrc' = flushed.curSrc
    /\ index' = index + 1
    /\ UNCHANGED <<watch, seen, typeofText, text, pc, lines>>
    /\ UNCHANGED notFmt

\* code branch: the block holds the untrimmed line
ScanCode ==
    /\ Scanning
    /\ trimmedLine # <<>>
    /\ ~headerMatch(trimmedLine)
    /\ ~numberMatch(trimmedLine)
    /\ ~bulletMatch(trimmedLine)
    /\ codeMatch(line, trimmedLine)
    /\ formatted' = Append(flushed.formatted, Block("code", line, <<>>, <<index>>))
    /\ currentList' = flushed.currentList
    /\ listType' = flushed.listType
    /\ curSrc' = flushed.curSrc
    /\ index' = index + 1
    /\ UNCHANGED <<watch, seen, typeofText, text, pc, lines>>
    /\ UNCHANGED notFmt

\* paragraph branch
ScanParagraph ==
    /\ Scanning
    /\ trimmedLine # <<>>
    /\ ~headerMatch(trimmedLine)
    /\ ~numberMatch(trimmedLine)
    /\ ~bulletMatch(trimmedLine)
    /\ ~codeMatch(line, trimmedLine)
    /\ formatted' = Append(flushed.formatted,
                           Block("paragraph", trimmedLine, <<>>, <<index>>))
    /\ currentList' = flushed.currentList
    /\ listType' = flushed.listType
    /\ curSrc' = flushed.curSrc
    /\ index' = index + 1
    /\ UNCHANGED <<watch, seen, typeofText, text, pc, lines>>
    /\ UNCHANGED notFmt

\* the end of formatText as it would be without the last flushList()
Finish_noFlush ==
    /\ pc = "scan"
    /\ index > Len(lines)
    /\ pc' = "done"
    /\ UNCHANGED <<watch, seen, typeofText, text, lines, index, formatted, currentList, listType, curSrc>>
    /\ UNCHANGED notFmt

\* the flush after the loop, and return formatted
Finish ==
    /\ pc = "scan"
    /\ index > Len(lines)
    /\ formatted' = flushed.formatted
    /\ currentList' = flushed.currentList
    /\ listType' = flushed.listType
    /\ curSrc' = flushed.curSrc
    /\ pc' = "done"
    /\ seen' = IF Watched /\ seen = Nothing
               THEN [kind |-> "blocks", blocks |-> flushed.formatted]
               ELSE seen
    /\ UNCHANGED <<watch, typeofText, text, lines, index>>
    /\ UNCHANGED notFmt

Next ==
    \/ ReturnNull
    \/ Start
    \/ Throw
    \/ ScanBlank
    \/ ScanHeader
    \/ ScanNumbered
    \/ ScanBullet
    \/ ScanCode
    \/ ScanParagraph
    \/ Finish

Spec == Init /\ [][Next]_vars

(* --------------------------- re-rendering ------------------------------ *)

MaxRenderLines == 2

RenderPool ==
    { <<>>,
      <<"a", " ", "b">>,
      <<"1", ".", " ", "a">>,
      <<Bullet, " ", "a">> }

\* the values of the text prop over the renders of one FormattedText
RenderInputs ==
    {[type |-> "string", text |-> Join(ls)] :
        ls \in UNION {[1..n -> RenderPool] : n \in 1..MaxRenderLines}}
      \cup {[type |-> "undefined", text |-> <<>>]}

InitRender ==
    /\ ChatIdle
    /\ ViewIdle
    /\ AppIdle
    /\ \E i \in RenderInputs : typeofText = i.type /\ text = i.text
    /\ pc = "start"
    /\ lines = <<>>
    /\ index = 1
    /\ formatted = <<>>
    /\ currentList = <<>>
    /\ listType = "null"
    /\ curSrc = <<>>
    /\ watch \in RenderInputs
    /\ seen = Nothing

\* the component renders again with a new text prop and calls formatText(text)
Rerender ==
    /\ pc \in {"done", "null"}
    /\ \E i \in RenderInputs : typeofText' = i.type /\ text' = i.text
    /\ pc' = "start"
    /\ UNCHANGED <<watch, seen, lines, index, formatted, currentList, listType, curSrc>>
    /\ UNCHANGED notFmt

NextRender ==
    \/ ReturnNull
    \/ Start
    \/ ScanBlank
    \/ ScanNumbered
    \/ ScanBullet
    \/ ScanParagraph
    \/ Finish
    \/ Rerender

SpecRender == InitRender /\ [][NextRender]_vars

(* --------------------------- ExpandableText ---------------------------- *)

MaxPreviewLen == 7

MaxBudget == 6

MaxExpandLen == 4

MaxExpandBudget == 3

MaxToggles == 3

\* previewLength = 1200
DefaultPreviewLength == 1200

Ellipsis == <<".", ".", ".">>

PreviewAlphabet == {"a", " ", "\n"}

PreviewTexts == UNION {[1..n -> PreviewAlphabet] : n \in 0..MaxPreviewLen}

\* "abcdefghij klmno", with the budget 10
KlmnoText ==
    <<"a", "b", "c", "d", "e", "f", "g", "h", "i", "j", " ", "k", "l", "m", "n", "o">>

\* the calls of getPreviewText
PreviewCalls ==
    {[text |-> t, length |-> l] : t \in PreviewTexts, l \in 0..MaxBudget}
      \cup {[text |-> KlmnoText, length |-> 10]}

\* s.lastIndexOf(c), counted from 0, -1 when c is not in s
lastIndexOf(s, c) ==
    IF \A i \in DOMAIN s : s[i] # c THEN -1
    ELSE (CHOOSE i \in DOMAIN s : s[i] = c /\ \A j \in (i + 1)..Len(s) : s[j] # c) - 1

\* the threshold as it would be with >= in place of >
beyond80_orEqual(i, length) == 10 * i >= 8 * length

\* lastSpaceIndex > length * 0.8 (on the integers the double product decides
\* as the exact one does)
beyond80(i, length) == 10 * i > 8 * length

\* getPreviewText as it would be with text.substring(0, length + 1)
getPreviewText_long(t, length) ==
    IF Len(t) <= length THEN t
    ELSE LET cut            == SubSeq(t, 1, length + 1)
             lastSpaceIndex == lastIndexOf(cut, " ")
         IN  IF beyond80(lastSpaceIndex, length)
             THEN SubSeq(cut, 1, lastSpaceIndex) \o Ellipsis
             ELSE cut \o Ellipsis

\* getPreviewText(text, length)
getPreviewText(t, length) ==
    IF Len(t) <= length THEN t
    ELSE LET cut            == SubSeq(t, 1, length)
             lastSpaceIndex == lastIndexOf(cut, " ")
         IN  IF beyond80(lastSpaceIndex, length)
             THEN SubSeq(cut, 1, lastSpaceIndex) \o Ellipsis
             ELSE cut \o Ellipsis

InitPreview ==
    /\ ChatIdle
    /\ AppIdle
    /\ pc = "idle"
    /\ typeofText = "string"
    /\ text = <<>>
    /\ lines = <<>>
    /\ index = 1
    /\ formatted = <<>>
    /\ currentList = <<>>
    /\ listType = "null"
    /\ curSrc = <<>>
    /\ watch = NoInput
    /\ seen = Nothing
    /\ xpc = "call"
    /\ \E c \in PreviewCalls : xtext = c.text /\ previewLength = c.length
    /\ preview = <<>>
    /\ isExpanded = FALSE
    /\ displayText = <<>>
    /\ button = FALSE
    /\ toggles = 0

\* one call of getPreviewText
GetPreview ==
    /\ xpc = "call"
    /\ preview' = getPreviewText(xtext, previewLength)
    /\ xpc' = "returned"
    /\ UNCHANGED <<xtext, previewLength, isExpanded, displayText, button, toggles>>
    /\ UNCHANGED notView

NextPreview == GetPreview

SpecPreview == InitPreview /\ [][NextPreview]_vars

ExpandAlphabet == {"a", " "}

\* a text of n letters
Letter(n) == [i \in 1..n |-> "a"]

\* the text props: the short texts, and texts as long as the default budget
\* and one longer
ExpandTexts ==
    UNION {[1..n -> ExpandAlphabet] : n \in 0..MaxExpandLen}
      \cup {Letter(DefaultPreviewLength), Letter(DefaultPreviewLength + 1)}

\* the previewLength props, the default of an absent one included
ExpandBudgets == (0..MaxExpandBudget) \cup {DefaultPreviewLength}

\* needsExpansion as it would be with >= in place of >
needsExpansion_orEqual(t, length) == Len(t) >= length

\* const needsExpansion = text.length > previewLength
needsExpansion(t, length) == Len(t) > length

\* const displayText = isExpanded || !needsExpansion ? text : getPreviewText(...)
display(t, length, expanded) ==
    IF expanded \/ ~needsExpansion(t, length) THEN t ELSE getPreviewText(t, length)

\* the first render: useState(false)
InitExpand ==
    /\ ChatIdle
    /\ AppIdle
    /\ pc = "idle"
    /\ typeofText = "string"
    /\ text = <<>>
    /\ lines = <<>>
    /\ index = 1
    /\ formatted = <<>>
    /\ currentList = <<>>
    /\ listType = "null"
    /\ curSrc = <<>>
    /\ watch = NoInput
    /\ seen = Nothing
    /\ xpc = "mounted"
    /\ xtext \in ExpandTexts
    /\ previewLength \in ExpandBudgets
    /\ preview = <<>>
    /\ isExpanded = FALSE
    /\ displayText = display(xtext, previewLength, FALSE)
    /\ button = needsExpansion(xtext, previewLength)
    /\ toggles = 0

\* the click handler as it would be with setIsExpanded(true)
Toggle_expandOnly ==
    /\ xpc = "mounted"
    /\ button
    /\ toggles < MaxToggles
    /\ isExpanded' = TRUE
    /\ toggles' = toggles + 1
    /\ displayText' = display(xtext, previewLength, isExpanded')
    /\ button' = needsExpansion(xtext, previewLength)
    /\ UNCHANGED <<xpc, xtext, previewLength, preview>>
    /\ UNCHANGED notView

\* onClick={() => setIsExpanded(!isExpanded)} and the render it causes
Toggle ==
    /\ xpc = "mounted"
    /\ button
    /\ toggles < MaxToggles
    /\ isExpanded' = ~isExpanded
    /\ toggles' = toggles + 1
    /\ displayText' = display(xtext, previewLength, isExpanded')
    /\ button' = needsExpansion(xtext, previewLength)
    /\ UNCHANGED <<xpc, xtext, previewLength, preview>>
    /\ UNCHANGED notView

\* the parent renders the component again with other props; the state stays
Props ==
    /\ xpc = "mounted"
    /\ xtext' \in ExpandTexts
    /\ previewLength' \in ExpandBudgets
    /\ displayText' = display(xtext', previewLength', isExpanded)
    /\ button' = needsExpansion(xtext', previewLength')
    /\ UNCHANGED <<xpc, preview, isExpanded, toggles>>
    /\ UNCHANGED notView

NextExpand ==
    \/ Toggle
    \/ Props

SpecExpand == InitExpand /\ [][NextExpand]_vars

(* ------------------- the application: sessions and admin pages ---------- *)
(* AuthProvider keeps the session; Layout offers the sidebar and the        *)
(* logout; Documents, Users and Analytics are the admin pages.  An async    *)
(* handler is two steps: the request it awaits goes in flight, and later    *)
(* the request settles and the rest of the handler runs, whatever happened  *)
(* to the session and to the route in between.  App.tsx wraps the pages in  *)
(* ProtectedRoute, whose code is not in the sources: no redirect of it is   *)
(* modelled, a page is mounted for whatever user there is.                  *)

Roles == {"user", "admin"}

\* access tokens the server hands out
Tokens == {"t1", "t2"}

\* '/dashboard' stands for the routes every user has
Pages == {"login", "dashboard", "documents", "users", "analytics"}

AdminPages == {"documents", "users", "analytics"}

\* what localStorage may hold when the application loads
Stores == [token : Tokens \cup {"null"}, user : Roles \cup {"null"}]

\* the formatter not in use
FmtIdle ==
    /\ pc = "idle"
    /\ typeofText = "string"
    /\ text = <<>>
    /\ lines = <<>>
    /\ index = 1
    /\ formatted = <<>>
    /\ currentList = <<>>
    /\ listType = "null"
    /\ curSrc = <<>>
    /\ watch = NoInput
    /\ seen = Nothing

\* user?.role === 'admin'
isAdmin(u) == u = "admin"

\* the sidebar of Layout
menuItems(u) == {"dashboard"} \cup (IF isAdmin(u) THEN AdminPages ELSE {})

\* fetchDocuments, fetchUsers, fetchAnalytics: the GET of an admin page
fetch(p) ==
    CASE p = "documents" -> "GET /documents"
      [] p = "users"     -> "GET /auth/users"
      [] p = "analytics" -> "GET /analytics/stats"

AdminGets == {fetch(p) : p \in AdminPages}

\* a GET goes out while u is the user
Issue(get, u) == {[request |-> get, user |-> u]}

\* useEffect(() => { if (isAdmin) fetch() }, [isAdmin]) of the page p, run
\* when p mounts or isAdmin changes
useEffect(p, u) == IF p \in AdminPages /\ isAdmin(u) THEN Issue(fetch(p), u) ELSE {}

\* what an admin page renders: if (!isAdmin) return <Alert>
render(p, u) == IF p \in AdminPages /\ ~isAdmin(u) THEN "Admin access required" ELSE "page"

\* Login: if (user) return <Navigate to="/dashboard" replace />
redirect(p, u) == IF p = "login" /\ u # "null" THEN "dashboard" ELSE p

\* the requests awaited by the handlers of Documents (onDrop,
\* handleDeleteDocument), each followed by fetchDocuments()
DocumentRequests == {"POST /upload", "DELETE /documents/id"}

\* the requests awaited by the handlers of Users (handleCreateUser,
\* handleToggleUserStatus, handleChangeUserRole), each followed by fetchUsers()
UserRequests == {"POST /auth/users/create", "PUT /auth/users/id/deactivate",
                 "PUT /auth/users/id/role"}

LoginRequest == "POST /auth/login"

InvalidLogin == "Invalid username or password"

\* Login as it mounts: useState(false), useState('')
LoginMounted ==
    /\ loginIsLoading = FALSE
    /\ loginError = ""

\* Login mounts, or unmounts and its state is gone
LoginReset ==
    /\ loginIsLoading' = FALSE
    /\ loginError' = ""

\* the application loads at some route, with whatever localStorage holds
InitApp ==
    /\ ChatIdle
    /\ FmtIdle
    /\ ViewIdle
    /\ user = "null"
    /\ token = "null"
    /\ isLoading = TRUE
    /\ localStorage \in Stores
    /\ Authorization = "null"
    /\ page \in Pages
    /\ inflight = {}
    /\ issued = {}
    /\ LoginMounted
    /\ success = "none"

\* AuthProvider's effect on load: the stored session is taken over when both
\* keys are there
Restore ==
    /\ isLoading
    /\ IF localStorage.token # "null" /\ localStorage.user # "null"
          THEN /\ token' = localStorage.token
               /\ user' = localStorage.user
               /\ Authorization' = localStorage.token
          ELSE UNCHANGED <<token, user, Authorization>>
    /\ isLoading' = FALSE
    /\ page' = redirect(page, user')
    /\ issued' = issued \cup useEffect(page', user')
    /\ UNCHANGED <<localStorage, inflight>>
    /\ UNCHANGED <<loginIsLoading, loginError, success>>
    /\ UNCHANGED notApp

\* the browser loads the application again at some route: memory is lost,
\* localStorage is kept
Reload ==
    /\ ~isLoading
    /\ user' = "null"
    /\ token' = "null"
    /\ isLoading' = TRUE
    /\ Authorization' = "null"
    /\ page' \in Pages
    /\ inflight' = {}
    /\ UNCHANGED <<localStorage, issued>>
    /\ LoginReset
    /\ success' = "none"
    /\ UNCHANGED notApp

\* Login.handleSubmit up to its await of login()
handleSubmit ==
    /\ ~isLoading
    /\ page = "login"
    /\ user = "null"
    /\ ~loginIsLoading
    /\ inflight' = inflight \cup {LoginRequest}
    /\ UNCHANGED <<user, token, isLoading, localStorage, Authorization, page, issued>>
    /\ loginIsLoading' = TRUE
    /\ loginError' = ""
    /\ UNCHANGED success
    /\ UNCHANGED notApp

\* login() after a successful POST /auth/login
login ==
    /\ LoginRequest \in inflight
    /\ \E t \in Tokens, r \in Roles :
          /\ token' = t
          /\ user' = r
          /\ localStorage' = [token |-> t, user |-> r]
          /\ Authorization' = t
    /\ inflight' = inflight \ {LoginRequest}
    /\ page' = redirect(page, user')
    /\ issued' = issued \cup (IF page' # page \/ isAdmin(user') # isAdmin(user)
                                 THEN useEffect(page', user') ELSE {})
    /\ UNCHANGED isLoading
    /\ success' = "true"
    /\ LoginReset
    /\ UNCHANGED notApp

\* the failed login as it would be with Login's setIsLoading(false) inside
\* the if (success) branch
login_rejected_loading ==
    /\ LoginRequest \in inflight
    /\ inflight' = inflight \ {LoginRequest}
    /\ UNCHANGED <<user, token, isLoading, localStorage, Authorization, page, issued>>
    /\ success' = "false"
    /\ loginError' = InvalidLogin
    /\ UNCHANGED loginIsLoading
    /\ UNCHANGED notApp

\* login() after a rejected POST /auth/login: the catch returns false, and
\* Login.handleSubmit goes on with setError and setIsLoading(false)
login_rejected ==
    /\ LoginRequest \in inflight
    /\ inflight' = inflight \ {LoginRequest}
    /\ UNCHANGED <<user, token, isLoading, localStorage, Authorization, page, issued>>
    /\ success' = "false"
    /\ loginError' = InvalidLogin
    /\ loginIsLoading' = FALSE
    /\ UNCHANGED notApp

\* logout() of AuthProvider
logout ==
    /\ token' = "null"
    /\ user' = "null"
    /\ localStorage' = [token |-> "null", user |-> "null"]
    /\ Authorization' = "null"

\* Layout.handleLogout: logout(), then navigate('/login')
handleLogout ==
    /\ ~isLoading
    /\ page # "login"
    /\ logout
    /\ page' = "login"
    /\ UNCHANGED <<isLoading, inflight, issued>>
    /\ LoginReset
    /\ UNCHANGED success
    /\ UNCHANGED notApp

\* a click on an entry of the sidebar
navigate ==
    /\ ~isLoading
    /\ page # "login"
    /\ \E p \in menuItems(user) \ {page} :
          /\ page' = p
          /\ issued' = issued \cup useEffect(p, user)
    /\ UNCHANGED <<user, token, isLoading, localStorage, Authorization, inflight>>
    /\ UNCHANGED <<loginIsLoading, loginError, success>>
    /\ UNCHANGED notApp

\* a handler of the rendered admin page p starts and awaits its request r
Await(p, r) ==
    /\ ~isLoading
    /\ page = p
    /\ render(p, user) = "page"
    /\ r \notin inflight
    /\ inflight' = inflight \cup {r}
    /\ UNCHANGED <<user, token, isLoading, localStorage, Authorization, page, issued>>
    /\ UNCHANGED <<loginIsLoading, loginError, success>>
    /\ UNCHANGED notApp

\* the request r succeeded: the handler goes on and calls the fetch of p
Refresh(p, r) ==
    /\ r \in inflight
    /\ inflight' = inflight \ {r}
    /\ issued' = issued \cup Issue(fetch(p), user)
    /\ UNCHANGED <<user, token, isLoading, localStorage, Authorization, page>>
    /\ UNCHANGED <<loginIsLoading, loginError, success>>
    /\ UNCHANGED notApp

\* the request r failed: the handler sets its error
Failed(r) ==
    /\ r \in inflight
    /\ inflight' = inflight \ {r}
    /\ UNCHANGED <<user, token, isLoading, localStorage, Authorization, page, issued>>
    /\ UNCHANGED <<loginIsLoading, loginError, success>>
    /\ UNCHANGED notApp

\* Documents: onDrop and handleDeleteDocument
DocumentsAwait == \E r \in DocumentRequests : Await("documents", r)

DocumentsRefresh == \E r \in DocumentRequests : Refresh("documents", r)

DocumentsFailed == \E r \in DocumentRequests : Failed(r)

\* Users: handleCreateUser, handleToggleUserStatus and handleChangeUserRole
UsersAwait == \E r \in UserRequests : Await("users", r)

UsersRefresh == \E r \in UserRequests : Refresh("users", r)

UsersFailed == \E r \in UserRequests : Failed(r)

NextApp ==
    \/ Restore
    \/ Reload
    \/ handleSubmit
    \/ login
    \/ login_rejected
    \/ handleLogout
    \/ navigate
    \/ DocumentsAwait
    \/ DocumentsRefresh
    \/ DocumentsFailed
    \/ UsersAwait
    \/ UsersRefresh
    \/ UsersFailed

SpecApp == InitApp /\ [][NextApp]_vars

(* ---------------------------- the chat pages ---------------------------- *)
(* Dashboard, AwsSolutions and CodingHub hold the same chat: a message     *)
(* list, an input, a loading flag, an error and the search history.  One   *)
(* mounted page is followed.  A handler started by a click or a key press  *)
(* runs with the state of the last render, and React renders again before  *)
(* the next click or key press is handled, so each handler is one step;    *)
(* what follows an await is a later step.  Scrolling, the expanded flag of *)
(* the history panel and the visible sources are left out.                 *)

MaxSends == 2

MaxItems == 1

ChatPages == {"Dashboard", "AwsSolutions", "CodingHub"}

\* the pages whose history items are added to the chat on a click
HistoryPages == {"AwsSolutions", "CodingHub"}

\* the ids of the history items the server may return
Items == 1..MaxItems

\* what the input field may hold: nothing, white space, a question
Inputs == {<<>>, <<" ">>, <<"q">>}

FailedToGet == "Failed to get response from AI"

\* err.response?.data?.detail || 'Failed to get response from AI'
QueryErrors == {"detail", FailedToGet}

\* a message: the id is Date.now() as a string for a sent message and its
\* reply (of is then, as history, the number of the send) and
\* 'history-<of>-<sender>' for a history item
Message(k, n, who, t) == [id |-> <<k, n, who>>, sender |-> who, text |-> t]

HistoryId(item, who) == <<"history", item, who>>

\* the sends accepted so far
Sent == Cardinality({i \in DOMAIN messages : messages[i].id[1] = "time" /\ messages[i].sender = "user"})

\* messages.find(msg => msg.id === id)
find(ms, id) == \E i \in DOMAIN ms : ms[i].id = id

\* the page mounts: useState, and the effect that fetches the search history
InitChat ==
    /\ FmtIdle
    /\ ViewIdle
    /\ AppIdle
    /\ chatPage \in ChatPages
    /\ messages = <<>>
    /\ inputMessage = <<>>
    /\ chatIsLoading = FALSE
    /\ chatError = ""
    /\ searchHistory = {}
    /\ queries = {}
    /\ fetching = 1
    /\ ignored = "no"
    /\ clicked = {}

\* setInputMessage: typing, or a click on a suggestion or (Dashboard) on a
\* history item
setInputMessage ==
    /\ \E v \in Inputs \ {inputMessage} : inputMessage' = v
    /\ UNCHANGED <<chatPage, messages, chatIsLoading, chatError, searchHistory, queries,
                   fetching, ignored, clicked>>
    /\ UNCHANGED notChat

\* the guard as it would be without the isLoading test
sendGuard_inputOnly(input, loading) == trim(input) # <<>>

\* !( !inputMessage.trim() || isLoading )
sendGuard(input, loading) == trim(input) # <<>> /\ ~loading

\* handleSendMessage up to its await of POST /query, by the button or Enter
handleSendMessage ==
    /\ IF sendGuard(inputMessage, chatIsLoading)
       THEN /\ Sent < MaxSends
            /\ messages' = Append(messages, Message("time", Sent + 1, "user", inputMessage))
            /\ inputMessage' = <<>>
            /\ chatIsLoading' = TRUE
            /\ chatError' = ""
            /\ queries' = queries \cup {Sent + 1}
            /\ UNCHANGED ignored
       ELSE /\ ignored' = IF chatIsLoading THEN "loading" ELSE "empty"
            /\ UNCHANGED <<messages, inputMessage, chatIsLoading, chatError, queries>>
    /\ UNCHANGED <<chatPage, searchHistory, fetching, clicked>>
    /\ UNCHANGED notChat

\* setMessages(prev => [...prev, botMessage])
reply(ms, m) == Append(ms, m)

\* POST /query answered: the reply is appended, the history fetched again
querySucceeds ==
    /\ \E n \in queries :
          /\ messages' = reply(messages, Message("time", n, "bot", <<"a">>))
          /\ queries' = queries \ {n}
    /\ fetching' = fetching + 1
    /\ chatIsLoading' = FALSE
    /\ UNCHANGED <<chatPage, inputMessage, chatError, searchHistory, ignored, clicked>>
    /\ UNCHANGED notChat

\* the failed query as it would be with setIsLoading(false) in the try only
queryFails_loading ==
    /\ \E n \in queries : queries' = queries \ {n}
    /\ \E d \in QueryErrors : chatError' = d
    /\ UNCHANGED <<chatPage, messages, inputMessage, chatIsLoading, searchHistory, fetching,
                   ignored, clicked>>
    /\ UNCHANGED notChat

\* the failed query as it would be dropping the message that was sent
queryFails_drop ==
    /\ \E n \in queries : queries' = queries \ {n}
    /\ \E d \in QueryErrors : chatError' = d
    /\ messages' = SubSeq(messages, 1, Len(messages) - 1)
    /\ chatIsLoading' = FALSE
    /\ UNCHANGED <<chatPage, inputMessage, searchHistory, fetching, ignored, clicked>>
    /\ UNCHANGED notChat

\* POST /query failed: catch sets the error, finally clears the flag
queryFails ==
    /\ \E n \in queries : queries' = queries \ {n}
    /\ \E d \in QueryErrors : chatError' = d
    /\ chatIsLoading' = FALSE
    /\ UNCHANGED <<chatPage, messages, inputMessage, searchHistory, fetching, ignored, clicked>>
    /\ UNCHANGED notChat

\* fetchSearchHistory after its GET: setSearchHistory(response.data), or the
\* error is logged
fetchSearchHistory ==
    /\ fetching > 0
    /\ fetching' = fetching - 1
    /\ \/ \E h \in SUBSET Items : searchHistory' = h
       \/ UNCHANGED searchHistory
    /\ UNCHANGED <<chatPage, messages, inputMessage, chatIsLoading, chatError, queries,
                   ignored, clicked>>
    /\ UNCHANGED notChat

\* the test of addHistoryToChat as it would be looking for the reply of a send
existing_sent(ms, item) == find(ms, <<"time", item, "bot">>)

\* messages.find(msg => msg.id === `history-${item.id}-user`)
existing(ms, item) == find(ms, HistoryId(item, "user"))

\* addHistoryToChat(item), by a click on an item of the history panel
addHistoryToChat ==
    /\ chatPage \in HistoryPages
    /\ \E item \in searchHistory :
          IF existing(messages, item)
          THEN /\ clicked' = clicked \cup {item}
               /\ UNCHANGED messages
          ELSE /\ messages' = messages \o <<Message("history", item, "user", <<"q">>),
                                             Message("history", item, "bot", <<"a">>)>>
               /\ UNCHANGED clicked
    /\ UNCHANGED <<chatPage, inputMessage, chatIsLoading, chatError, searchHistory, queries,
                   fetching, ignored>>
    /\ UNCHANGED notChat

NextChat ==
    \/ setInputMessage
    \/ handleSendMessage
    \/ querySucceeds
    \/ queryFails
    \/ fetchSearchHistory
    \/ addHistoryToChat

SpecChat == InitChat /\ [][NextChat]_vars

\* a request that was sent is answered or fails in the end
QuerySettles == querySucceeds \/ queryFails

SpecChatLive == SpecChat /\ WF_vars(QuerySettles)

(* ======================= properties of the scan ======================== *)

Done == pc = "done"

ListKinds == {"numbered", "bullet"}

FourSpaces == <<" ", " ", " ", " ">>

\* the kind the precedence blank > header > numbered > bulleted > code >
\* paragraph gives a line
KindOf(l) ==
    LET t == trim(l)
    IN  IF t = <<>> THEN "blank"
        ELSE IF headerMatch(t) THEN "header"
        ELSE IF numberMatch(t) THEN "numbered"
        ELSE IF bulletMatch(t) THEN "bullet"
        ELSE IF codeMatch(l, t) THEN "code"
        ELSE "paragraph"

\* the number of lines the scan has gone through
Processed == IF pc = "done" THEN Len(lines) ELSE IF pc = "scan" THEN index - 1 ELSE 0

InBlock(b, i) == \E k \in DOMAIN formatted[b].from : formatted[b].from[k] = i

Emitted(i) == \E b \in DOMAIN formatted : InBlock(b, i)

BlockOf(i) == CHOOSE b \in DOMAIN formatted : InBlock(b, i)

IsPrefix(s, t) == Len(s) <= Len(t) /\ SubSeq(t, 1, Len(s)) = s

\* a block without its history field
Shape(b) == [kind |-> b.kind, content |-> b.content, items |-> b.items]

Shapes == [b \in DOMAIN formatted |-> Shape(formatted[b])]

Group(k, its) == [kind |-> k, content |-> <<>>, items |-> its]

Single(k, c) == [kind |-> k, content |-> c, items |-> <<>>]

NumberedItem(n, c) == [number |-> n, content |-> c]

\* C1, first half: blocks stand in the order of their first triggering lines
C1_OrderInv ==
    \A a, b \in DOMAIN formatted :
        formatted[a].from[1] < formatted[b].from[1] => a < b

\* C1: formatText emits blocks in input order (a block whose first triggering
\* line comes earlier stands earlier in the output), and during the scan the
\* output list only grows: every step keeps the blocks emitted so far, in
\* place and unchanged.
C1_InputOrder ==
    [](C1_OrderInv) /\ [][IsPrefix(formatted, formatted')]_vars

\* a finished scan that emitted a list group of two lines between two blocks
C1_Witness ==
    /\ Done
    /\ \E b \in DOMAIN formatted :
          /\ 1 < b /\ b < Len(formatted)
          /\ formatted[b].kind \in ListKinds
          /\ Len(formatted[b].from) >= 2

\* C2: consecutive lines of the same list kind, nothing between them, end in
\* one and the same group block as neighbouring items, each with the number and
\* content of its line; "1. foo", "2. bar" gives one numbered group {1, foo},
\* {2, bar}, and the four numbered lines of the demo text give one numbered
\* group of four items.
C2_MergedGroup ==
    Done =>
      /\ \A i \in 1..(Len(lines) - 1) :
            (KindOf(lines[i]) \in ListKinds /\ KindOf(lines[i + 1]) = KindOf(lines[i])) =>
              /\ Cardinality({b \in DOMAIN formatted : InBlock(b, i) \/ InBlock(b, i + 1)}) = 1
              /\ LET g == formatted[BlockOf(i)]
                 IN  /\ g.kind = KindOf(lines[i])
                     /\ Len(g.items) = Len(g.from)
                     /\ \E k \in 1..(Len(g.from) - 1) :
                           /\ g.from[k] = i /\ g.from[k + 1] = i + 1
                           /\ \A m \in {k, k + 1} :
                                g.items[m] =
                                  IF g.kind = "numbered"
                                  THEN NumberedItem(parseInt(numberGroup(trim(lines[g.from[m]]))),
                                                    contentGroup(trim(lines[g.from[m]])))
                                  ELSE bulletText(trim(lines[g.from[m]]))
      /\ text = FooBarText =>
            Shapes = <<Group("numbered", <<NumberedItem(1, <<"f", "o", "o">>),
                                           NumberedItem(2, <<"b", "a", "r">>)>>)>>
      /\ text = sampleText =>
            /\ formatted[BlockOf(15)].kind = "numbered"
            /\ formatted[BlockOf(15)].from = <<15, 16, 17, 18>>
            /\ [k \in 1..4 |-> formatted[BlockOf(15)].items[k].number] = <<1, 2, 3, 4>>
            /\ Cardinality({b \in DOMAIN formatted : formatted[b].kind = "numbered"}) = 1

\* the demo text formatted to the end, its numbered lines in one group
C2_Witness ==
    /\ Done
    /\ text = sampleText
    /\ \E b \in DOMAIN formatted : formatted[b].kind = "numbered" /\ Len(formatted[b].items) = 4

\* C3: a blank line (trimmed form empty) closes the pending group and emits no
\* block of its own: right after it the buffer is empty and the list type
\* none, no block comes from a blank line, list items on both sides of a blank
\* line lie in different groups, and the text of two bullets, a blank line and
\* "plain text" gives the bulleted group [a, b] and the paragraph "plain text".
C3_BlankFlush ==
    /\ (pc = "scan" /\ index > 1 /\ KindOf(lines[index - 1]) = "blank") =>
          currentList = <<>> /\ listType = "null"
    /\ \A b \in DOMAIN formatted : \A k \in DOMAIN formatted[b].from :
          KindOf(lines[formatted[b].from[k]]) # "blank"
    /\ Done =>
         /\ \A i, j \in DOMAIN lines :
               (/\ i < j
                /\ KindOf(lines[i]) \in ListKinds
                /\ KindOf(lines[j]) \in ListKinds
                /\ \E m \in (i + 1)..(j - 1) : KindOf(lines[m]) = "blank") =>
                  Emitted(i) /\ Emitted(j) /\ BlockOf(i) # BlockOf(j)
         /\ text = BulletPlainText =>
               Shapes = <<Group("bullet", << <<"a">>, <<"b">> >>),
                          Single("paragraph",
                                 <<"p", "l", "a", "i", "n", " ", "t", "e", "x", "t">>)>>

\* two list items of the same kind, a blank line between them, in two groups
C3_Witness ==
    /\ Done
    /\ \E i \in DOMAIN lines :
          /\ i + 2 \in DOMAIN lines
          /\ KindOf(lines[i]) \in ListKinds
          /\ KindOf(lines[i + 1]) = "blank"
          /\ KindOf(lines[i + 2]) = KindOf(lines[i])
          /\ BlockOf(i + 2) = BlockOf(i) + 1

\* C4: a change of list kind without a blank line forces a flush: a numbered
\* line directly followed by a bulleted line (or the reverse) gives two group
\* blocks, one after the other in input order, no group ever holds lines of
\* two kinds, and "1. a" then a bullet "b" gives the numbered group [{1, a}]
\* followed by the bulleted group [b].
C4_KindChange ==
    /\ \A b \in DOMAIN formatted :
          formatted[b].kind \in ListKinds =>
            \A k \in DOMAIN formatted[b].from :
                KindOf(lines[formatted[b].from[k]]) = formatted[b].kind
    /\ Done =>
         /\ \A i \in 1..(Len(lines) - 1) :
               (/\ KindOf(lines[i]) \in ListKinds
                /\ KindOf(lines[i + 1]) \in ListKinds
                /\ KindOf(lines[i + 1]) # KindOf(lines[i])) =>
                  /\ Emitted(i) /\ Emitted(i + 1)
                  /\ BlockOf(i + 1) = BlockOf(i) + 1
                  /\ formatted[BlockOf(i)].kind = KindOf(lines[i])
                  /\ formatted[BlockOf(i + 1)].kind = KindOf(lines[i + 1])
         /\ text = MixedText =>
               Shapes = <<Group("numbered", <<NumberedItem(1, <<"a">>)>>),
                          Group("bullet", << <<"b">> >>)>>

\* the text "1. a", bullet "b" formatted to the end, in two blocks
C4_Witness ==
    /\ Done
    /\ text = MixedText
    /\ Len(formatted) = 2

endsWith(s, p) == Len(s) >= Len(p) /\ SubSeq(s, Len(s) - Len(p) + 1, Len(s)) = p

Stars == <<"*", "*">>

\* C5: a line whose trimmed form starts and ends with "**" is emitted as
\* exactly one header block whose content is the trimmed line without its two
\* leading and its two trailing marker characters, the interior kept as it is;
\* "**Title**" gives one header with content "Title".
C5_HeaderStrip ==
    Done =>
      /\ \A i \in DOMAIN lines :
            LET t == trim(lines[i])
            IN  (Len(t) >= 4 /\ startsWith(t, Stars) /\ endsWith(t, Stars)) =>
                  /\ Cardinality({b \in DOMAIN formatted : InBlock(b, i)}) = 1
                  /\ Shape(formatted[BlockOf(i)]) = Single("header", SubSeq(t, 3, Len(t) - 2))
      /\ text = TitleText => Shapes = <<Single("header", <<"T", "i", "t", "l", "e">>)>>

\* C6: a header requires at least one character between the marker pairs: no
\* header block comes from a line whose trimmed form is the two pairs alone.
C6_NonEmptyInterior ==
    \A b \in DOMAIN formatted :
        formatted[b].kind = "header" => Len(trim(lines[formatted[b].from[1]])) >= 5

\* the kind the scan gave line i: of its block, or of the pending buffer
Assigned(i) ==
    IF Emitted(i) THEN formatted[BlockOf(i)].kind
    ELSE IF \E m \in DOMAIN curSrc : curSrc[m] = i THEN listType
    ELSE "blank"

Const == <<"c", "o", "n", "s", "t", " ">>

Import == <<"i", "m", "p", "o", "r", "t", " ">>

\* C7: each line gets the first kind that matches in the order blank, header,
\* numbered, bulleted, code, paragraph: a line matching the numbered pattern
\* that contains "const " or starts with four spaces is a numbered item, a
\* bullet line containing "import " is a bulleted item, and a "**...**" line
\* that looks like code is a header.
C7_Precedence ==
    \A i \in 1..Processed :
        LET t == trim(lines[i])
        IN  /\ Assigned(i) = KindOf(lines[i])
            /\ (numberMatch(t) /\ (includes(t, Const) \/ startsWith(lines[i], FourSpaces))) =>
                  Assigned(i) = "numbered"
            /\ (bulletMatch(t) /\ includes(t, Import)) => Assigned(i) = "bullet"
            /\ (headerMatch(t) /\ codeMatch(lines[i], t)) => Assigned(i) = "header"

\* one text with a numbered line holding "const ", a bullet line holding
\* "import " and a header that looks like code, each given its first kind
C7_Witness ==
    /\ Done
    /\ \E i \in DOMAIN lines :
          numberMatch(trim(lines[i])) /\ includes(trim(lines[i]), Const)
          /\ Assigned(i) = "numbered"
    /\ \E i \in DOMAIN lines :
          bulletMatch(trim(lines[i])) /\ includes(trim(lines[i]), Import)
          /\ Assigned(i) = "bullet"
    /\ \E i \in DOMAIN lines :
          headerMatch(trim(lines[i])) /\ includes(trim(lines[i]), Const)
          /\ Assigned(i) = "header"

RECURSIVE Flatten(_)
Flatten(ss) == IF ss = <<>> THEN <<>> ELSE Head(ss) \o Flatten(Tail(ss))

\* the lines the output and the pending buffer hold, in output order
Units == Flatten([b \in DOMAIN formatted |-> formatted[b].from]) \o curSrc

NotBlankAt(i) == KindOf(lines[i]) # "blank"

\* the indexes of the non-blank lines among the first n, ascending
NonBlankIdx(n) == SelectSeq([i \in 1..n |-> i], NotBlankAt)

\* the item a list line gives
ItemOf(k, l) ==
    IF k = "numbered"
    THEN NumberedItem(parseInt(numberGroup(trim(l))), contentGroup(trim(l)))
    ELSE bulletText(trim(l))

\* C8: every non-blank line is classified as exactly one kind and stands in
\* the output exactly once: the lines held by the blocks and the pending
\* buffer are, in order, the non-blank lines gone through so far, each as one
\* header, code or paragraph block or as one item of a list group, and at the
\* end the buffer is empty, its group emitted by the final flush.
C8_EveryLineOnce ==
    pc \in {"scan", "done"} =>
      /\ Units = NonBlankIdx(Processed)
      /\ \A b \in DOMAIN formatted :
            LET g == formatted[b]
            IN  IF g.kind \in ListKinds
                THEN /\ Len(g.from) >= 1 /\ Len(g.items) = Len(g.from)
                     /\ \A k \in DOMAIN g.from :
                           /\ KindOf(lines[g.from[k]]) = g.kind
                           /\ g.items[k] = ItemOf(g.kind, lines[g.from[k]])
                ELSE /\ Len(g.from) = 1 /\ g.items = <<>>
                     /\ g.kind \in {"header", "code", "paragraph"}
                     /\ KindOf(lines[g.from[1]]) = g.kind
                     /\ g.kind = "code" => g.content = lines[g.from[1]]
                     /\ g.kind = "paragraph" => g.content = trim(lines[g.from[1]])
      /\ Len(currentList) = Len(curSrc)
      /\ \A k \in DOMAIN curSrc :
            /\ KindOf(lines[curSrc[k]]) = listType
            /\ currentList[k] = ItemOf(listType, lines[curSrc[k]])
      /\ Done => currentList = <<>> /\ curSrc = <<>>

\* a finished scan whose last line is a list item, emitted by the final
\* flush after a block of another kind
C8_Witness ==
    /\ Done
    /\ Len(lines) >= 2
    /\ KindOf(lines[Len(lines)]) \in ListKinds
    /\ Len(formatted) >= 2
    /\ InBlock(Len(formatted), Len(lines))

NonBlank(s) == SelectSeq(s, LAMBDA c : c \notin WhiteSpace)

\* the characters of a line that are neither blank nor marker: the header
\* without its outer pairs, the numbered line without its dot, the bullet line
\* without its glyph
ExpectedOf(l) ==
    LET t == trim(l)
        k == KindOf(l)
    IN  IF k = "header" THEN SubSeq(t, 3, Len(t) - 2)
        ELSE IF k = "numbered" THEN numberGroup(t) \o Drop(t, Len(numberGroup(t)) + 1)
        ELSE IF k = "bullet" THEN Drop(t, 1)
        ELSE t

\* the text a block shows: its content, or its items, a numbered item with
\* its number in front
VisibleOf(g) ==
    IF g.kind = "numbered"
    THEN Flatten([k \in DOMAIN g.items |->
                    NumberText(g.items[k].number) \o g.items[k].content])
    ELSE IF g.kind = "bullet" THEN Flatten(g.items)
    ELSE g.content

\* C9: the visible content of the blocks, concatenated, holds all non-blank,
\* non-marker characters of the input in their order, the digits of a numbered
\* marker and the interior of a header included.
C9_CharsPreserved ==
    Done =>
      NonBlank(Flatten([b \in DOMAIN formatted |-> VisibleOf(formatted[b])]))
        = NonBlank(Flatten([i \in DOMAIN lines |-> ExpectedOf(lines[i])]))

\* line i starts with four spaces and is not blank, header, numbered or bulleted
IndentedCode(i) ==
    LET t == trim(lines[i])
    IN  /\ startsWith(lines[i], FourSpaces)
        /\ t # <<>> /\ ~headerMatch(t) /\ ~numberMatch(t) /\ ~bulletMatch(t)

\* C10: a line that starts with four or more spaces and is not blank, header,
\* numbered or bulleted is emitted as one code block of its own whose content
\* is the untrimmed line, leading spaces included; the group pending before it
\* is closed first and stands right before the code block; "    x = 1" gives
\* one code block with that content.
C10_IndentedCode ==
    /\ \A i \in 1..Processed :
          IndentedCode(i) =>
            /\ Cardinality({b \in DOMAIN formatted : InBlock(b, i)}) = 1
            /\ formatted[BlockOf(i)] = Block("code", lines[i], <<>>, <<i>>)
            /\ (i > 1 /\ KindOf(lines[i - 1]) \in ListKinds) =>
                  /\ Emitted(i - 1)
                  /\ BlockOf(i - 1) = BlockOf(i) - 1
    /\ (pc = "scan" /\ index > 1 /\ IndentedCode(index - 1)) =>
          /\ currentList = <<>> /\ listType = "null"
          /\ InBlock(Len(formatted), index - 1)
    /\ (Done /\ text = IndentText) => Shapes = <<Single("code", IndentText)>>

\* an indented line right after a list item, emitted as a code block after
\* the item's group
C10_Witness ==
    /\ Done
    /\ \E i \in DOMAIN lines :
          /\ i > 1 /\ IndentedCode(i) /\ KindOf(lines[i - 1]) \in ListKinds
          /\ formatted[BlockOf(i)].kind = "code"
          /\ Len(formatted[BlockOf(i)].content) > Len(trim(lines[i]))

\* C11: a numbered marker without digits is never numbered: a line whose
\* trimmed form starts with "." gives no numbered item and falls through to
\* the later steps, ending as code when the code condition holds and as a
\* paragraph otherwise.
C11_NoDigitsNotNumbered ==
    \A i \in 1..Processed :
        LET t == trim(lines[i])
        IN  (t # <<>> /\ t[1] = ".") =>
              /\ Assigned(i) # "numbered"
              /\ Assigned(i) = IF codeMatch(lines[i], t) THEN "code" ELSE "paragraph"
              /\ \A k \in DOMAIN curSrc : curSrc[k] # i

\* a line starting with "." right after a numbered line, emitted as a paragraph
C11_Witness ==
    /\ Done
    /\ \E i \in DOMAIN lines :
          /\ i > 1
          /\ trim(lines[i]) # <<>> /\ trim(lines[i])[1] = "."
          /\ KindOf(lines[i - 1]) = "numbered"
          /\ Assigned(i) = "paragraph"

\* the items held for line i: in its group once emitted, else in the buffer
ItemsOf(i) ==
    IF Emitted(i)
    THEN {formatted[BlockOf(i)].items[k] :
            k \in {m \in DOMAIN formatted[BlockOf(i)].from : formatted[BlockOf(i)].from[m] = i}}
    ELSE {currentList[k] : k \in {m \in DOMAIN curSrc : curSrc[m] = i}}

\* C12: a line of the bullet glyph alone (white space around it or not) gives
\* a bulleted item with empty content that is kept in its group, and the
\* content of any bulleted item is the trimmed line without the glyph and the
\* white space after it.
C12_EmptyBullet ==
    \A i \in 1..Processed :
        LET t == trim(lines[i])
        IN  bulletMatch(t) =>
              /\ Assigned(i) = "bullet"
              /\ ItemsOf(i) = {Drop(t, 1 + PrefixIn(Drop(t, 1), WhiteSpace))}
              /\ t = <<Bullet>> => ItemsOf(i) = {<<>>}

\* a bulleted group of two items emitted, one of them from a line of the
\* glyph alone
C12_Witness ==
    /\ Done
    /\ \E i \in DOMAIN lines :
          /\ trim(lines[i]) = <<Bullet>>
          /\ Emitted(i)
          /\ Len(formatted[BlockOf(i)].items) >= 2
          /\ \E k \in DOMAIN formatted[BlockOf(i)].items :
                formatted[BlockOf(i)].from[k] = i /\ formatted[BlockOf(i)].items[k] = <<>>

\* the values formatText treats as empty or absent text
EmptyInput ==
    \/ typeofText = "string" /\ text = <<>>
    \/ typeofText \in {"undefined", "null"}

\* C13: empty or absent input produces no blocks: on the empty string and on
\* undefined or null formatText returns null without scanning, and a text of
\* blank or white-space-only lines emits no block.
C13_EmptyNoBlocks ==
    /\ EmptyInput => pc \in {"start", "null"} /\ formatted = <<>>
    /\ pc = "null" => formatted = <<>>
    /\ (pc \in {"scan", "done"} /\ \A i \in 1..Processed : trim(lines[i]) = <<>>) =>
          formatted = <<>> /\ currentList = <<>>

\* a text of several blank lines, one of them of white space, scanned to the
\* end without a block
C13_Witness ==
    /\ Done
    /\ Len(lines) >= 2
    /\ \A i \in DOMAIN lines : trim(lines[i]) = <<>>
    /\ \E i \in DOMAIN lines : lines[i] # <<>>
    /\ formatted = <<>>

\* C14: whatever value a caller passes as the text, formatText never throws.
C14_NeverThrows == pc # "thrown"

\* what the call has returned, once it has
Returned ==
    IF pc = "null" THEN [kind |-> "null", blocks |-> <<>>]
    ELSE [kind |-> "blocks", blocks |-> formatted]

\* C15: formatting is a deterministic function of the text alone: whenever
\* formatText returns for an input it has returned for before, whatever was
\* formatted in between, it returns the same value as then (the same block
\* sequence, or null both times).
C15_SameTextSameBlocks ==
    (pc \in {"done", "null"} /\ Watched) => seen = Returned

\* a later call on a text formatted before, about to return the same blocks,
\* a list group among them
C15_Witness ==
    /\ pc = "scan" /\ index > Len(lines)
    /\ Watched
    /\ seen.kind = "blocks" /\ Len(seen.blocks) >= 2
    /\ flushed.formatted = seen.blocks
    /\ \E b \in DOMAIN seen.blocks : seen.blocks[b].kind \in ListKinds

(* ==================== properties of ExpandableText ==================== *)

Overlong == xpc = "returned" /\ Len(xtext) > previewLength

\* the first n characters of the text
First(n) == SubSeq(xtext, 1, n)

\* the places, counted from 0, of the characters of C among the first
\* previewLength characters of the text
PlacesOf(C) == {i \in 0..(previewLength - 1) : xtext[i + 1] \in C}

Last(S) == CHOOSE i \in S : \A j \in S : j <= i

\* C16: for a text longer than the budget L, with s the index of the last
\* space among the first L characters: if s > 0.8 L the preview is the first s
\* characters and "...", otherwise (no space, or s = 0.8 L) it is the first L
\* characters and "..."; with L = 10 and "abcdefghij klmno" it is
\* "abcdefghij...".
C16_PreviewCut ==
    Overlong =>
      /\ IF PlacesOf({" "}) # {} /\ 10 * Last(PlacesOf({" "})) > 8 * previewLength
         THEN preview = First(Last(PlacesOf({" "}))) \o Ellipsis
         ELSE preview = First(previewLength) \o Ellipsis
      /\ (xtext = KlmnoText /\ previewLength = 10) =>
            preview = <<"a", "b", "c", "d", "e", "f", "g", "h", "i", "j", ".", ".", ".">>

\* a preview cut at a space beyond 0.8 L
C16_Witness ==
    /\ Overlong
    /\ PlacesOf({" "}) # {}
    /\ 10 * Last(PlacesOf({" "})) > 8 * previewLength
    /\ Len(preview) = Last(PlacesOf({" "})) + 3

\* C17: when the last white space among the first L characters is a newline
\* or tab beyond 0.8 L and no space lies beyond 0.8 L, the preview is cut at
\* that white space.
C17_WhitespaceCut ==
    (/\ Overlong
     /\ PlacesOf({"\n", "\t"}) # {}
     /\ 10 * Last(PlacesOf({"\n", "\t"})) > 8 * previewLength
     /\ \A i \in PlacesOf({" "}) : 10 * i <= 8 * previewLength) =>
        preview = First(Last(PlacesOf({"\n", "\t"}))) \o Ellipsis

Odd(n) == n % 2 = 1

\* C18: for a text longer than the budget the component starts collapsed and
\* hands the formatter the preview of the raw text; each click flips between
\* preview and full text, so after n clicks the full text is shown exactly
\* when n is odd, and what the formatter gets is always the full text or its
\* preview.
C18_Toggle ==
    /\ isExpanded = Odd(toggles)
    /\ needsExpansion(xtext, previewLength) =>
          /\ button
          /\ displayText = IF Odd(toggles) THEN xtext
                           ELSE getPreviewText(xtext, previewLength)
          /\ toggles = 0 => displayText # xtext
    /\ displayText \in {xtext, getPreviewText(xtext, previewLength)}

\* a long text shown in preview again after two clicks
C18_Witness ==
    /\ toggles = 2
    /\ needsExpansion(xtext, previewLength)
    /\ previewLength > 0
    /\ displayText = getPreviewText(xtext, previewLength)
    /\ displayText = First(previewLength) \o Ellipsis

\* C19: a text no longer than the budget (1200 when none is given) is shown
\* whole and unchanged, without ellipsis and without the button, whatever the
\* expanded flag is; a text exactly as long as the budget is not truncated.
C19_ShortTextWhole ==
    Len(xtext) <= previewLength => displayText = xtext /\ ~button

\* a text of exactly 1200 characters under the default budget, the expanded
\* flag set by earlier clicks
C19_Witness ==
    /\ Len(xtext) = DefaultPreviewLength
    /\ previewLength = DefaultPreviewLength
    /\ isExpanded
    /\ displayText = xtext

(* --------------------------- claim C20 ---------------------------------- *)

\* the user is absent or has a role other than 'admin'
NotAdmin(u) == ~isAdmin(u)

\* C20: while the current user is absent or is not an admin, no GET
\* /documents, GET /auth/users or GET /analytics/stats is issued, an admin
\* page renders only the 'Admin access required' alert, and the sidebar has
\* no Documents, Users or Analytics entry, after any logins and logouts.
C20_AdminOnly ==
    /\ \A g \in issued : g.request \in AdminGets => ~NotAdmin(g.user)
    /\ NotAdmin(user) =>
          /\ page \in AdminPages => render(page, user) = "Admin access required"
          /\ menuItems(user) \cap AdminPages = {}

(* --------------------------- claim C21 ---------------------------------- *)

\* s without its leading white space
trimStart(s) == Drop(s, PrefixIn(s, WhiteSpace))

\* the trimmed line is one or more digits, then a dot
DigitsDot(t) ==
    LET k == PrefixIn(t, Digits)
    IN  k >= 1 /\ Len(t) > k /\ t[k + 1] = "."

\* the numbered lines among those gone through whose content holds no line
\* terminator keep their whole remainder
C21_TameRemainder ==
    \A i \in 1..Processed :
        LET t == trim(lines[i])
            k == PrefixIn(t, Digits)
        IN  (DigitsDot(t) /\ \A j \in DOMAIN t : t[j] \notin LineTerminators) =>
              ItemsOf(i) = {NumberedItem(parseInt(SubSeq(t, 1, k)), trimStart(Drop(t, k + 1)))}

\* C21: the white space after a numbered marker is optional: a trimmed line
\* of digits, a dot and content (with or without a space between) becomes a
\* numbered item whose number is the parsed digits and whose content is the
\* remainder after the dot without its leading white space; the item goes to
\* the pending buffer and is in no block before a later step flushes it.
C21_NoSpaceNumbered ==
    \A i \in 1..Processed :
        LET t == trim(lines[i])
            k == PrefixIn(t, Digits)
        IN  DigitsDot(t) =>
              /\ Assigned(i) = "numbered"
              /\ ItemsOf(i) = {NumberedItem(parseInt(SubSeq(t, 1, k)),
                                            trimStart(Drop(t, k + 1)))}
              /\ (pc = "scan" /\ Processed = i) =>
                    /\ ~Emitted(i)
                    /\ currentList # <<>> /\ curSrc[Len(curSrc)] = i

(* --------------------------- claim C22 ---------------------------------- *)

\* the items its and the lines from they came from are all of the kind k
AllOfKind(k, its, from) ==
    /\ Len(its) = Len(from)
    /\ \A n \in DOMAIN its :
          /\ KindOf(lines[from[n]]) = k
          /\ its[n] = ItemOf(k, lines[from[n]])

\* C22: after each line the pending kind is null exactly when the pending
\* buffer is empty, the buffer holds only items of the pending kind, every
\* group block emitted so far is non-empty and of a single kind (the other
\* blocks hold no items), and a flush with an empty buffer emits nothing.
C22_PendingGroup ==
    /\ (listType = "null") <=> (currentList = <<>>)
    /\ listType \in ListKinds \cup {"null"}
    /\ listType \in ListKinds => AllOfKind(listType, currentList, curSrc)
    /\ \A b \in DOMAIN formatted :
          IF formatted[b].kind \in ListKinds
          THEN /\ formatted[b].items # <<>>
               /\ AllOfKind(formatted[b].kind, formatted[b].items, formatted[b].from)
          ELSE formatted[b].items = <<>>
    /\ \A lt \in ListKinds \cup {"null"} :
          flushList(formatted, <<>>, lt, <<>>).formatted = formatted

\* a blank first line, its flush finding the buffer empty, then a numbered
\* group emitted and a bulleted item pending
C22_Witness ==
    /\ pc = "scan"
    /\ Processed >= 3
    /\ KindOf(lines[1]) = "blank"
    /\ listType = "bullet" /\ currentList # <<>>
    /\ \E b \in DOMAIN formatted :
          formatted[b].kind = "numbered" /\ formatted[b].items # <<>>

(* --------------------------- claim C23 ---------------------------------- *)

\* the characters of s
Chars(s) == {s[i] : i \in DOMAIN s}

\* C23: for every text and budget L >= 0 what getPreviewText returns is the
\* text itself or a prefix of the text of at most L characters followed by
\* exactly "..."; it is never longer than L + 3 and holds no character that
\* is not in the text, the ellipsis apart.
C23_PreviewShape ==
    xpc = "returned" =>
      /\ \/ preview = xtext
         \/ \E n \in 0..previewLength :
               /\ n <= Len(xtext)
               /\ preview = SubSeq(xtext, 1, n) \o Ellipsis
      /\ Len(preview) <= previewLength + 3
      /\ \/ Chars(preview) \subseteq Chars(xtext)
         \/ /\ Len(preview) >= 3
            /\ SubSeq(preview, Len(preview) - 2, Len(preview)) = Ellipsis
            /\ Chars(SubSeq(preview, 1, Len(preview) - 3)) \subseteq Chars(xtext)

\* a text longer than the budget cut short of it, at its last space
C23_Witness ==
    /\ xpc = "returned"
    /\ Len(xtext) > previewLength
    /\ previewLength > 0
    /\ Len(preview) < previewLength + 3
    /\ preview = SubSeq(xtext, 1, Len(preview) - 3) \o Ellipsis

(* --------------------------- claim C24 ---------------------------------- *)

\* memory, localStorage and the Authorization header hold the same session
Agree ==
    /\ (token = "null") <=> (user = "null")
    /\ localStorage.token = token
    /\ localStorage.user = user
    /\ Authorization = token

\* localStorage holds both keys or neither
Paired == (localStorage.token = "null") <=> (localStorage.user = "null")

\* once the load is over, a localStorage with both keys or neither agrees
\* with memory and the header
C24_PairedAgree == (~isLoading /\ Paired) => Agree

\* C24: after any sequence of restore on load, login (successful or failed)
\* and logout, the token and the user in memory are both set or both null and
\* agree with the localStorage keys 'token' and 'user' and with the default
\* Authorization header, whatever localStorage held at first.
C24_SessionConsistent == ~isLoading => Agree

(* --------------------------- claim C25 ---------------------------------- *)

\* the step in which a pending login() returns false
LoginFails ==
    /\ LoginRequest \in inflight
    /\ LoginRequest \notin inflight'
    /\ success' = "false"

\* C25: a failed login returns false and leaves token, user, localStorage
\* and the Authorization header exactly as they were before the call; the
\* Login page then shows its error message and clears its loading flag.
C25_FailedLogin ==
    [][LoginFails =>
          /\ UNCHANGED <<token, user, localStorage, Authorization>>
          /\ loginError' = InvalidLogin
          /\ loginIsLoading' = FALSE]_vars

\* a login failed after an earlier admin session: the page shows the error
\* and is no longer loading
C25_Witness ==
    /\ success = "false"
    /\ page = "login"
    /\ LoginRequest \notin inflight
    /\ loginError = InvalidLogin
    /\ ~loginIsLoading
    /\ issued # {}

(* ======================= properties of the chat ======================== *)

\* the messages sent from the input field, and their replies
IsSent(m) == m.id[1] = "time"

\* where the message with the id stands, 0 when it is not in the list
PlaceOf(id) ==
    IF find(messages, id) THEN CHOOSE i \in DOMAIN messages : messages[i].id = id ELSE 0

\* how often the id is in the list
Count(id) == Cardinality({i \in DOMAIN messages : messages[i].id = id})

C27_LoadingClears ==
    /\ [](chatIsLoading => queries # {})
    /\ (chatIsLoading ~> ~chatIsLoading)

\* both outcomes seen: a reply in the list, then a failed query, and the flag
\* cleared
C27_Witness ==
    /\ ~chatIsLoading
    /\ queries = {}
    /\ chatError # ""
    /\ find(messages, <<"time", 1, "bot">>)
    /\ find(messages, <<"time", 2, "user">>)

\* the step in which a POST /query fails
QueryFails ==
    /\ queries' # queries
    /\ queries' \subseteq queries
    /\ chatError' # ""

\* the step in which a send is accepted
SendAccepted == Sent' = Sent + 1

\* C28: when POST /query fails the message of the user stays in the list,
\* no reply is appended, the search history is not fetched again and the
\* error is the detail of the server or 'Failed to get response from AI'; the
\* error stays until the next accepted send, which clears it as it issues
\* its request.
C28_FailedQuery ==
    [][/\ QueryFails =>
             /\ messages' = messages
             /\ \A n \in queries \ queries' :
                   /\ find(messages', <<"time", n, "user">>)
                   /\ ~find(messages', <<"time", n, "bot">>)
             /\ fetching' = fetching
             /\ chatError' \in QueryErrors
       /\ (chatError # "" /\ chatError' # chatError) =>
             /\ SendAccepted
             /\ chatError' = ""
             /\ queries' # queries]_vars

\* the query failed: the message sent is the last of the list, the error is
\* shown and no fetch of the history is pending
C28_Witness ==
    /\ chatError = FailedToGet
    /\ ~chatIsLoading
    /\ messages # <<>>
    /\ messages[Len(messages)].id = <<"time", 1, "user">>
    /\ fetching = 0

\* C29: addHistoryToChat is idempotent for each history item: the first
\* click appends the pair 'history-<id>-user', 'history-<id>-bot' and a later
\* click on the same item appends nothing, so the list holds at most one such
\* pair for an item, the reply right after the question, and the ids of the
\* history entries are unique.
C29_HistoryOnce ==
    /\ \A item \in Items :
          /\ Count(HistoryId(item, "user")) <= 1
          /\ Count(HistoryId(item, "bot")) = Count(HistoryId(item, "user"))
          /\ existing(messages, item) =>
                PlaceOf(HistoryId(item, "bot")) = PlaceOf(HistoryId(item, "user")) + 1
          /\ item \in clicked => Count(HistoryId(item, "user")) = 1
    /\ \A i, j \in DOMAIN messages :
          (messages[i].id[1] = "history" /\ i # j) => messages[i].id # messages[j].id
    /\ chatPage \notin HistoryPages => \A i \in DOMAIN messages : IsSent(messages[i])

\* an item clicked again after its pair was added, a sent message after the
\* pair
C29_Witness ==
    /\ clicked # {}
    /\ \E item \in clicked :
          /\ PlaceOf(HistoryId(item, "user")) = 1
          /\ PlaceOf(HistoryId(item, "bot")) = 2
    /\ Len(messages) > 2

\* once the load is over nothing is taken from the list or moved in it
C30_AppendOnly == [][IsPrefix(messages, messages')]_vars

\* C30: for every successful send the message of the user is appended
\* before the request is issued and the reply after it, and the reply stands
\* right after its message even when history items are added to the chat
\* while the request is in flight.
C30_ReplyFollows ==
    /\ \A n \in queries : find(messages, <<"time", n, "user">>)
    /\ \A i \in DOMAIN messages :
          (IsSent(messages[i]) /\ messages[i].sender = "bot") =>
             /\ i > 1
             /\ messages[i - 1].id = <<"time", messages[i].id[2], "user">>
====
